---- MODULE Spec2Model ----
(***************************************************************************)
(* State-machine model of onmt/modules/VariationalAttention.py.            *)
(*                                                                         *)
(* A VariationalAttention object is configured once (__init__) and then    *)
(* receives calls of forward, sample_attn and score.  Every call is one    *)
(* atomic action that computes the whole Python method, including the      *)
(* exception it ends with when it does not return.                         *)
(*                                                                         *)
(* Number model.  Tensor entries are exact fractions [n |-> num, d |-> den]*)
(* with d > 0; float("-inf") is the fraction -1/0.  exp is taken to base 2 *)
(* (so that softmax of integer scores stays rational), log is the inverse  *)
(* base-2 logarithm on dyadic fractions, and tanh is the rational squashing*)
(* x / (1 + |x|).  Tensors are [size |-> shape, data |-> row-major flat    *)
(* sequence], so view / squeeze / unsqueeze change the size only, exactly  *)
(* as they do in torch.                                                    *)
(***************************************************************************)
EXTENDS Integers, Sequences, FiniteSets, TLC

VARIABLES self, pc, call, ret

vars == <<self, pc, call, ret>>

(***************************************************************************)
(* Bounds of the model: the sizes of the tensors handed to the calls.      *)
(***************************************************************************)
Batch == 2
SrcLen == 2
Dim == 1
NSamples == 2

(***************************************************************************)
(* Python None and optional values: None is <<>>, a present value v is     *)
(* <<v>>.                                                                  *)
(***************************************************************************)
None == <<>>
Some(v) == <<v>>
IsNone(o) == Len(o) = 0
Val(o) == o[1]

(***************************************************************************)
(* Local names (a Python assignment): the value of e is computed once and  *)
(* named in F.                                                             *)
(***************************************************************************)
Let(e, F(_)) == CHOOSE r \in {F(v) : v \in {e}} : TRUE
Let2(e1, e2, F(_, _)) == CHOOSE r \in {F(v, w) : v \in {e1}, w \in {e2}} : TRUE

(***************************************************************************)
(* Fractions.                                                              *)
(***************************************************************************)
Fr(a, b) == [n |-> a, d |-> b]
FInt(a) == Fr(a, 1)
NegInf == Fr(-1, 0)
IsNegInf(x) == x.d = 0
Abs(a) == IF a < 0 THEN -a ELSE a

RECURSIVE GCD(_, _)
GCD(a, b) == IF b = 0 THEN a ELSE GCD(b, a % b)

\* lowest terms; -inf and integers are left as they are
Norm(x0) ==
    Let(x0, LAMBDA x :
        IF x.d <= 1 THEN x
        ELSE Let(GCD(Abs(x.n), x.d), LAMBDA g : Fr(x.n \div g, x.d \div g)))

FAdd(x0, y0) ==
    Let2(x0, y0, LAMBDA x, y :
        IF x.d = y.d THEN Norm(Fr(x.n + y.n, x.d))
        ELSE Norm(Fr(x.n * y.d + y.n * x.d, x.d * y.d)))
FMul(x0, y0) ==
    Let2(x0, y0, LAMBDA x, y : Norm(Fr(x.n * y.n, x.d * y.d)))
FZero(x) == x.d > 0 /\ x.n = 0
FOne(x) == x.d > 0 /\ x.n = x.d
FPos(x) == x.d > 0 /\ x.n > 0

RECURSIVE FSum(_)
FSum(s0) ==
    Let(s0, LAMBDA s :
        IF Len(s) = 0 THEN FInt(0) ELSE FAdd(Head(s), FSum(Tail(s))))

(***************************************************************************)
(* Row-major tensors.                                                      *)
(***************************************************************************)
RECURSIVE Prod(_)
Prod(sz) == IF sz = <<>> THEN 1 ELSE Head(sz) * Prod(Tail(sz))

RECURSIVE Unravel(_, _)
Unravel(k, sz) ==
    IF sz = <<>> THEN <<>>
    ELSE LET p == Prod(Tail(sz))
         IN  <<(k \div p) + 1>> \o Unravel(k % p, Tail(sz))

RECURSIVE Ravel(_, _)
Ravel(idx, sz) ==
    IF sz = <<>> THEN 0
    ELSE (Head(idx) - 1) * Prod(Tail(sz)) + Ravel(Tail(idx), Tail(sz))

\* data is kept as an explicit sequence of Prod(sz) entries
Tensor(sz, dat) == [size |-> sz, data |-> SubSeq(dat, 1, Prod(sz))]
At(x, idx) == x.data[Ravel(idx, x.size) + 1]
Build(sz0, F(_)) ==
    Let(sz0, LAMBDA sz :
        Tensor(sz, [i \in 1..Prod(sz) |-> Let(Unravel(i - 1, sz), F)]))
TDim(x) == Len(x.size)

\* x.unsqueeze(d): a new axis of size 1 before axis d (0-based); data unchanged
unsqueeze(x0, d) ==
    Let(x0, LAMBDA x :
        Tensor(SubSeq(x.size, 1, d) \o <<1>> \o SubSeq(x.size, d + 1, Len(x.size)),
               x.data))

\* x.squeeze(d): axis d (0-based) is removed when its size is 1
squeeze(x0, d) ==
    Let(x0, LAMBDA x :
        IF x.size[d + 1] = 1
        THEN Tensor(SubSeq(x.size, 1, d) \o SubSeq(x.size, d + 2, Len(x.size)),
                    x.data)
        ELSE x)

\* x.view(sz): same data under another shape of the same number of entries
view(x, sz0) == Let(sz0, LAMBDA sz : Tensor(sz, x.data))

\* x.permute(perm): axis i of the result is axis perm[i] (1-based) of x
permute(x0, perm) ==
    Let(x0, LAMBDA x :
        Build([i \in 1..Len(perm) |-> x.size[perm[i]]],
              LAMBDA idx : At(x, [j \in 1..Len(perm) |->
                                    idx[CHOOSE i \in 1..Len(perm) : perm[i] = j]])))

\* x.expand(sz) / broadcasting: axes of size 1 are read at index 1
expand(x0, sz0) ==
    Let2(x0, sz0, LAMBDA x, sz :
        Build(sz, LAMBDA idx : At(x, [j \in 1..Len(sz) |->
                                        IF x.size[j] = 1 THEN 1 ELSE idx[j]])))

\* x.repeat(r, 1, 1, 1) on a tensor whose first axis has size 1
repeat0(x0, r) == Let(x0, LAMBDA x : expand(x, <<r>> \o Tail(x.size)))

\* torch.cat([x, y], -1)
cat(x0, y0) ==
    Let2(x0, y0, LAMBDA x, y :
        LET r  == Len(x.size)
            a  == x.size[r]
            sz == [x.size EXCEPT ![r] = a + y.size[r]]
        IN  Build(sz, LAMBDA idx : IF idx[r] <= a THEN At(x, idx)
                                   ELSE At(y, [idx EXCEPT ![r] = idx[r] - a])))

\* torch.bmm(x, y): (B, n, m) x (B, m, p) -> (B, n, p)
bmm(x0, y0) ==
    Let2(x0, y0, LAMBDA x, y :
        Build(<<x.size[1], x.size[2], y.size[3]>>,
              LAMBDA idx : FSum([m \in 1..x.size[3] |->
                                   FMul(At(x, <<idx[1], idx[2], m>>),
                                        At(y, <<idx[1], m, idx[3]>>))])))

\* nn.Linear(in, out, bias=False) applied to the last axis; w[o][i]
linear(w, x0) ==
    Let(x0, LAMBDA x :
        LET r == Len(x.size)
        IN  Build([x.size EXCEPT ![r] = Len(w)],
                  LAMBDA idx : FSum([i \in 1..x.size[r] |->
                                       FMul(FInt(w[idx[r]][i]),
                                            At(x, [idx EXCEPT ![r] = i]))])))

\* nn.Tanh, elementwise
tanh(x0) ==
    Let(x0, LAMBDA x :
        Tensor(x.size, [i \in 1..Len(x.data) |->
                          Fr(x.data[i].n, x.data[i].d + Abs(x.data[i].n))]))

(***************************************************************************)
(* onmt.Utils helpers (imported at line 9).                                *)
(***************************************************************************)
\* Params namedtuple; every field but dist_type is optional
Params(a, la, dt, smp, slp) ==
    [alpha |-> a, log_alpha |-> la, dist_type |-> dt,
     samples |-> smp, sample_log_probs |-> slp]

DistInfo(qq, pp) == [q |-> qq, p |-> pp]

\* aeq(a, b, ...): all arguments equal
aeq(a, b) == a = b

\* sequence_mask(lengths): mask[n, s] is true at the valid positions of n
sequence_mask(lengths, max_len) ==
    Build(<<Len(lengths), max_len>>, LAMBDA idx : idx[2] <= lengths[idx[1]])

(***************************************************************************)
(* torch primitives used by the methods.                                   *)
(***************************************************************************)
\* 1 - mask
invert(mask0) ==
    Let(mask0, LAMBDA mask :
        Tensor(mask.size, [i \in 1..Len(mask.data) |-> ~mask.data[i]]))

\* x.masked_fill_(m, v), m broadcast to the shape of x
masked_fill(x0, m, v) ==
    Let(x0, LAMBDA x :
        Let(expand(m, x.size), LAMBDA mm :
            Tensor(x.size, [i \in 1..Len(x.data) |->
                              IF mm.data[i] THEN v ELSE x.data[i]])))

\* base-2 exponential of an integer-valued entry, relative to the offset m
Exp2(x, m) == IF IsNegInf(x) THEN 0 ELSE 2 ^ ((x.n \div x.d) - m)

SetMin(S) == CHOOSE a \in S : \A b \in S : a <= b

\* F.softmax(x, dim=-1) / nn.Softmax(dim=-1); a row of -inf only gives NaN (0/0)
softmax(x0) ==
    Let(x0, LAMBDA x :
        LET r == Len(x.size)
            row(idx) == SubSeq([s \in 1..x.size[r] |-> At(x, [idx EXCEPT ![r] = s])],
                               1, x.size[r])
            fin(rw) == {rw[s].n \div rw[s].d : s \in {j \in 1..Len(rw) : ~IsNegInf(rw[j])}}
            off(rw) == Let(fin(rw), LAMBDA f : IF f = {} THEN 0 ELSE SetMin(f))
            num(rw, s, o) == Exp2(rw[s], o)
            den(rw, o) == (FSum([s \in 1..Len(rw) |-> FInt(num(rw, s, o))])).n
        IN  Build(x.size, LAMBDA idx :
                Let(row(idx), LAMBDA rw :
                    Let(off(rw), LAMBDA o : Fr(num(rw, idx[r], o), den(rw, o))))))

\* self.scoresF (F.softplus by default): a positive value for every score
scoresF(x0) ==
    Let(x0, LAMBDA x :
        Let(SetMin({x.data[i].n \div x.data[i].d : i \in 1..Len(x.data)} \cup {0}),
            LAMBDA lo :
                Tensor(x.size, [i \in 1..Len(x.data) |->
                                  Fr(Exp2(x.data[i], lo), 2 ^ (-lo))])))

\* math.exp(-10), the fill value of line 275
ExpMinus10 == Fr(1, 2 ^ 10)

\* base-2 logarithm of a dyadic probability; log 0 = -inf
RECURSIVE Log2Int(_)
Log2Int(a) == IF a <= 1 THEN 0 ELSE 1 + Log2Int(a \div 2)
Log2(x) == IF x.n = 0 THEN NegInf ELSE FInt(Log2Int(x.n) - Log2Int(x.d))
log(x0) ==
    Let(x0, LAMBDA x :
        Tensor(x.size, [i \in 1..Len(x.data) |-> Log2(x.data[i])]))

(***************************************************************************)
(* Outcome of a call: it returns, or it ends with the exception raised at  *)
(* a source line.  stages lists the tensor computations carried out.       *)
(***************************************************************************)
Raise(exc, ln, st) ==
    [status |-> exc, line |-> ln, stages |-> st]

(***************************************************************************)
(* VariationalAttention.score                                              *)
(***************************************************************************)
score(slf, h_t0, h_s) ==
    Let(h_t0, LAMBDA h_t :
        LET tgt   == h_t.size
            h_t_  == linear(slf.linear_in, view(h_t, <<tgt[1] * tgt[2], tgt[3]>>))
            h_t2  == view(h_t_, <<tgt[1], tgt[2], tgt[3]>>)
            h_s_  == permute(h_s, <<1, 3, 2>>)
        IN  bmm(h_t2, h_s_))

(***************************************************************************)
(* VariationalAttention.sample_attn.  draw is what the torch sampler       *)
(* hands back: a (K, N*T, S) tensor of simplex points for Dirichlet, a     *)
(* (K, N*T) tensor of indices for Categorical.                             *)
(***************************************************************************)
\* the simplex points Dirichlet(alpha).rsample can hand back for one row:
\* strictly positive entries that sum to 1 (here on the grid 1/(S+1))
DirichletRows(S) ==
    {[s \in 1..S |-> Fr(IF s = j THEN 2 ELSE 1, S + 1)] : j \in {1, S}}

\* the indices Categorical(probs).sample can hand back for one row
CategoricalSupport(row) == {s \in 1..Len(row) : FPos(row[s])}

RowOf(x, r) ==
    LET S == x.size[Len(x.size)]
    IN  [s \in 1..S |-> x.data[(r - 1) * S + s]]

\* the index sequences of length m whose entry i lies in the support of the
\* row it is drawn for (entry i of a (K, N*T) draw belongs to row i mod N*T)
RECURSIVE IndexDraws(_, _, _)
IndexDraws(alpha, NT, m) ==
    IF m = 0 THEN {<<>>}
    ELSE {Append(h, i) : h \in IndexDraws(alpha, NT, m - 1),
                         i \in CategoricalSupport(RowOf(alpha, ((m - 1) % NT) + 1))}

\* every tensor the sampler of params can return for n_samples draws
SampleSpace(params, n_samples) ==
    IF IsNone(params.alpha) THEN {None}
    ELSE LET alpha == Val(params.alpha)
             S  == alpha.size[Len(alpha.size)]
             NT == Prod(alpha.size) \div S
         IN  IF params.dist_type = "dirichlet"
             THEN {Some(Tensor(<<n_samples, NT, S>>,
                          [i \in 1..(n_samples * NT * S) |->
                              f[((i - 1) \div S) + 1][((i - 1) % S) + 1]]))
                      : f \in [1..(n_samples * NT) -> DirichletRows(S)]}
             ELSE IF params.dist_type = "categorical"
             THEN {Some(Tensor(<<n_samples, NT>>, g))
                      : g \in IndexDraws(alpha, NT, n_samples * NT)}
             ELSE {None}

\* lines 206-207: one-hot encoding of the sampled indices
scatter_one_hot(attns_id0, S) ==
    Let(attns_id0, LAMBDA attns_id :
        LET sz == attns_id.size
        IN  Build(<<sz[1], sz[2], sz[3], S>>,
                  LAMBDA idx : IF idx[4] = At(attns_id, <<idx[1], idx[2], idx[3], 1>>)
                               THEN FInt(1) ELSE FInt(0)))

\* a plausible slip: every sample reads the index drawn for the first sample
gather_first_sample(log_alpha0, attns_id0) ==
    Let2(log_alpha0, attns_id0, LAMBDA log_alpha, attns_id :
        Let(expand(unsqueeze(log_alpha, 0), <<attns_id.size[1]>> \o log_alpha.size),
            LAMBDA la :
                squeeze(Build(attns_id.size, LAMBDA idx :
                            At(la, <<idx[1], idx[2], idx[3],
                                     At(attns_id, <<1, idx[2], idx[3], 1>>)>>)), 3)))

\* lines 212-213: log_alpha.unsqueeze(0).expand(K,N,T,S).gather(3, attns_id).squeeze(3)
gather_log_probs(log_alpha0, attns_id0) ==
    Let2(log_alpha0, attns_id0, LAMBDA log_alpha, attns_id :
        Let(expand(unsqueeze(log_alpha, 0), <<attns_id.size[1]>> \o log_alpha.size),
            LAMBDA la :
                squeeze(Build(attns_id.size, LAMBDA idx :
                            At(la, <<idx[1], idx[2], idx[3], At(attns_id, idx)>>)), 3)))

SampleReturn(a, slp) ==
    [status |-> "returned", line |-> 219, stages |-> <<"sample">>,
     attns |-> a, sample_log_probs |-> slp]

sample_attn(params, n_samples, lengths, mask, draw) ==
    LET dist_type == params.dist_type
        alpha == Val(params.alpha)
        K == n_samples
        N == alpha.size[1]
        T == alpha.size[2]
        S == alpha.size[3]
    IN  IF dist_type = "dirichlet"
        THEN IF IsNone(mask)
             THEN Raise("AttributeError", 193, <<"sample">>)
             ELSE SampleReturn(
                    Some(masked_fill(view(Val(draw), <<K, N, T, S>>),
                                     invert(unsqueeze(Val(mask), 0)), FInt(0))),
                    None)
        ELSE IF dist_type = "categorical"
        THEN Let(view(Val(draw), <<K, N, T, 1>>), LAMBDA attns_id :
                 [SampleReturn(Some(scatter_one_hot(attns_id, S)),
                        Some(gather_log_probs(Val(params.log_alpha), attns_id)))
                    EXCEPT !.line = 214])
        ELSE IF dist_type = "none"
        THEN Raise("UnboundLocalError", 219, <<>>)
        ELSE Raise("Exception", 218, <<>>)

(***************************************************************************)
(* VariationalAttention.forward, in the order of its source lines.         *)
(***************************************************************************)
\* lines 270-275 and 289-293: mask = sequence_mask(memory_lengths).unsqueeze(1)
length_mask(memory_lengths, sourceL) ==
    IF IsNone(memory_lengths) THEN None
    ELSE Some(unsqueeze(sequence_mask(Val(memory_lengths), sourceL), 1))

Prior(c, p, m, st) ==
    [status |-> "ok", c_align_vectors |-> c, p_scores |-> p, mask |-> m,
     stages |-> st]

\* lines 266-283
prior_dirichlet(slf, input, memory_bank, memory_lengths) ==
    Let2(score(slf, input, memory_bank),
         length_mask(memory_lengths, memory_bank.size[2]),
         LAMBDA log_scores, mask :
            LET scores == scoresF(log_scores)
                log_scores_m == IF IsNone(mask) THEN log_scores
                                ELSE masked_fill(log_scores, invert(Val(mask)), NegInf)
                scores_m == IF IsNone(mask) THEN scores
                            ELSE masked_fill(scores, invert(Val(mask)), ExpMinus10)
            IN  Prior(softmax(log_scores_m),
                      Params(Some(scores_m), None, slf.p_dist_type, None, None),
                      mask,
                      IF IsNone(mask) THEN <<"score", "softmax">>
                      ELSE <<"score", "mask", "softmax">>))

\* a plausible slip: the length mask is not applied before the softmax
prior_categorical_unmasked(slf, input, memory_bank, memory_lengths) ==
    Let(softmax(score(slf, input, memory_bank)), LAMBDA scores :
        Prior(scores,
              Params(Some(scores), None, slf.p_dist_type, None, None),
              length_mask(memory_lengths, memory_bank.size[2]),
              <<"score", "softmax">>))

\* lines 287-301
prior_categorical(slf, input, memory_bank, memory_lengths) ==
    Let(length_mask(memory_lengths, memory_bank.size[2]), LAMBDA mask :
        Let(softmax(IF IsNone(mask) THEN score(slf, input, memory_bank)
                    ELSE masked_fill(score(slf, input, memory_bank),
                                     invert(Val(mask)), NegInf)),
            LAMBDA scores :
                Prior(scores,
                      Params(Some(scores), None, slf.p_dist_type, None, None),
                      mask,
                      IF IsNone(mask) THEN <<"score", "softmax">>
                      ELSE <<"score", "mask", "softmax">>)))

\* a plausible slip: no check of the prior type, and the log_normal branch
\* goes on to compute its raw scores (line 286) instead of raising
prior_params_unchecked(slf, input, memory_bank, memory_lengths) ==
    IF slf.p_dist_type = "dirichlet"
    THEN prior_dirichlet(slf, input, memory_bank, memory_lengths)
    ELSE IF slf.p_dist_type = "log_normal"
    THEN Raise("UnboundLocalError", 305, <<"get_raw_scores">>)
    ELSE IF slf.p_dist_type = "categorical"
    THEN prior_categorical(slf, input, memory_bank, memory_lengths)
    ELSE Raise("UnboundLocalError", 305, <<>>)

\* lines 263-301: the prior parameters and c_align_vectors
prior_params(slf, input, memory_bank, memory_lengths) ==
    IF slf.p_dist_type # "categorical"
    THEN Raise("AssertionError", 263, <<>>)
    ELSE IF slf.p_dist_type = "dirichlet"
    THEN prior_dirichlet(slf, input, memory_bank, memory_lengths)
    ELSE IF slf.p_dist_type = "log_normal"
    THEN Raise("Exception", 285, <<>>)
    ELSE IF slf.p_dist_type = "categorical"
    THEN prior_categorical(slf, input, memory_bank, memory_lengths)
    ELSE Raise("UnboundLocalError", 305, <<>>)

\* lines 305-308: h_c
deterministic_context(slf, c_align_vectors, memory_bank, input) ==
    LET context_c == bmm(c_align_vectors, memory_bank)
        concat_c == cat(context_c, input)
    IN  tanh(linear(slf.linear_out, concat_c))

Drawn(y, qs, ps, slp, st) ==
    [status |-> "ok", y_align_vectors |-> y, q_sample |-> qs, p_sample |-> ps,
     sample_log_probs |-> slp, stages |-> st]

\* lines 314-333: sample or enumerate
stochastic_path(slf, q_scores, p_scores, memory_lengths, mask, draw) ==
    IF slf.mode = "sample"
    THEN IF IsNone(q_scores) \/ slf.use_prior
         THEN Raise("AssertionError", 317, <<>>)
         ELSE IF Val(q_scores).dist_type = "categorical"
         THEN Let(sample_attn(Val(q_scores), slf.n_samples, memory_lengths,
                              IF IsNone(memory_lengths) THEN None ELSE mask,
                              draw),
                  LAMBDA r :
                     IF r.status # "returned" THEN r
                     ELSE Drawn(r.attns, r.attns, None, r.sample_log_probs,
                                <<"sample">>))
         ELSE \* line 328 passes mode=, which sample_attn does not accept
              Raise("TypeError", 328, <<>>)
    ELSE IF slf.mode = "enum"
    THEN Drawn(None, None, None, None, <<>>)
    ELSE \* y_align_vectors is never bound: line 342 reads it
         Raise("UnboundLocalError", 342, <<>>)

\* a plausible slip: the axes of the enumerated context are left in the
\* order (T, N, S, H)
enumerate_context_unpermuted(memory_bank, targetL) ==
    repeat0(unsqueeze(memory_bank, 0), targetL)

\* lines 350-353: for enumerate, K = S
enumerate_context(memory_bank, targetL) ==
    permute(repeat0(unsqueeze(memory_bank, 0), targetL), <<3, 2, 1, 4>>)

\* lines 343-346
sampled_context(slf, y_align_vectors0, memory_bank, targetL) ==
    Let(y_align_vectors0, LAMBDA y_align_vectors :
        LET batch == memory_bank.size[1]
            sourceL == memory_bank.size[2]
            dim == memory_bank.size[3]
            y == view(y_align_vectors,
                      <<Prod(y_align_vectors.size) \div (targetL * sourceL),
                        targetL, sourceL>>)
            m == view(repeat0(unsqueeze(memory_bank, 0), slf.n_samples),
                      <<slf.n_samples * batch, sourceL, dim>>)
        IN  view(bmm(y, m), <<slf.n_samples, batch, targetL, dim>>))

\* lines 342-357: context_y and h_y
context_y_of(slf, y_align_vectors, memory_bank, targetL) ==
    IF ~IsNone(y_align_vectors)
    THEN sampled_context(slf, Val(y_align_vectors), memory_bank, targetL)
    ELSE enumerate_context(memory_bank, targetL)

project_y(slf, context_y0, input) ==
    Let(context_y0, LAMBDA context_y :
        tanh(linear(slf.linear_out,
                    cat(context_y, expand(unsqueeze(input, 0), context_y.size)))))

OptSqueeze(o0, d) ==
    Let(o0, LAMBDA o : IF IsNone(o) THEN None ELSE Some(squeeze(Val(o), d)))

\* a plausible slip: the time axis of the sampled outputs is not removed
one_step_outputs_unsqueezed(h_y, h_c, c_align_vectors, q_scores, p_scores, smp) ==
    [h_y |-> h_y,
     h_c |-> squeeze(h_c, 1),
     c_align_vectors |-> squeeze(c_align_vectors, 1),
     dist_info |-> DistInfo(
        IF IsNone(q_scores) THEN None
        ELSE Some(Params(OptSqueeze(Val(q_scores).alpha, 1), None,
                         Val(q_scores).dist_type,
                         OptSqueeze(smp.q_sample, 2),
                         smp.sample_log_probs)),
        Some(Params(OptSqueeze(p_scores.alpha, 1), None, p_scores.dist_type,
                    OptSqueeze(smp.p_sample, 2), None)))]

\* lines 359-380: the one-step outputs
one_step_outputs(h_y, h_c, c_align_vectors, q_scores, p_scores, smp) ==
    [h_y |-> squeeze(h_y, 2),
     h_c |-> squeeze(h_c, 1),
     c_align_vectors |-> squeeze(c_align_vectors, 1),
     dist_info |-> DistInfo(
        IF IsNone(q_scores) THEN None
        ELSE Some(Params(OptSqueeze(Val(q_scores).alpha, 1), None,
                         Val(q_scores).dist_type,
                         OptSqueeze(smp.q_sample, 2),
                         OptSqueeze(smp.sample_log_probs, 2))),
        Some(Params(OptSqueeze(p_scores.alpha, 1), None, p_scores.dist_type,
                    OptSqueeze(smp.p_sample, 2), None)))]

\* lines 241-253: a 2-D query is a one-step call; q_scores gets a time axis
promote_q(q_scores) ==
    IF ~IsNone(q_scores) /\ ~IsNone(Val(q_scores).alpha)
    THEN Some(Params(Some(unsqueeze(Val(Val(q_scores).alpha), 1)),
                     Some(unsqueeze(Val(Val(q_scores).log_alpha), 1)),
                     Val(q_scores).dist_type, None, None))
    ELSE q_scores

forward(slf, input0, memory_bank, memory_lengths, q_scores0, draw) ==
    LET one_step == TDim(input0) = 2
        batch == memory_bank.size[1]
        sourceL == memory_bank.size[2]
        dim == memory_bank.size[3]
    IN  IF one_step /\ ~IsNone(q_scores0) /\ ~IsNone(Val(q_scores0).alpha)
              /\ IsNone(Val(q_scores0).log_alpha)
        THEN Raise("AttributeError", 249, <<>>)
        ELSE
        Let2(IF one_step THEN unsqueeze(input0, 1) ELSE input0,
             IF one_step THEN promote_q(q_scores0) ELSE q_scores0,
             LAMBDA input, q_scores :
        IF ~(aeq(batch, input.size[1]) /\ aeq(dim, input.size[3])
               /\ aeq(slf.dim, dim))
        THEN Raise("AssertionError", 257, <<>>)
        ELSE
        Let(prior_params(slf, input, memory_bank, memory_lengths), LAMBDA pri :
        IF pri.status # "ok" THEN pri
        ELSE
        Let2(deterministic_context(slf, pri.c_align_vectors, memory_bank, input),
             stochastic_path(slf, q_scores, pri.p_scores, memory_lengths,
                             pri.mask, draw),
             LAMBDA h_c, smp :
        IF smp.status # "ok"
        THEN [smp EXCEPT !.stages = pri.stages \o <<"context">> \o smp.stages]
        ELSE
        Let(context_y_of(slf, smp.y_align_vectors, memory_bank, input.size[2]),
            LAMBDA context_y :
        Let2(project_y(slf, context_y, input),
             pri.stages \o <<"context">> \o smp.stages \o <<"context_y">>,
             LAMBDA h_y, done :
        IF ~one_step
        THEN Raise("AssertionError", 390, done)
        ELSE
        Let(one_step_outputs(h_y, h_c, pri.c_align_vectors, q_scores,
                             pri.p_scores, smp),
            LAMBDA out :
        IF ~(aeq(<<batch, dim>>, out.h_c.size)
               /\ aeq(<<batch, sourceL>>, out.c_align_vectors.size))
        THEN Raise("AssertionError", 383, done)
        ELSE [status |-> "returned", line |-> 436, stages |-> done,
              h_y |-> out.h_y, h_c |-> out.h_c,
              c_align_vectors |-> out.c_align_vectors,
              dist_info |-> out.dist_info,
              context_y |-> context_y,
              y_align_vectors |-> smp.y_align_vectors]))))))

(***************************************************************************)
(* The object and the arguments of the calls.                              *)
(***************************************************************************)
PDistTypes == {"dirichlet", "categorical", "log_normal"}
Modes == {"sample", "enum", "enumerate"}

\* lines 66-102: the object __init__ leaves behind; the weights of the two
\* bias-free linear layers are fixed to ones
Construct(dim, p_dist_type, use_prior, n_samples, mode) ==
    [dim |-> dim, p_dist_type |-> p_dist_type, use_prior |-> use_prior,
     n_samples |-> n_samples, mode |-> mode,
     linear_in |-> [o \in 1..dim |-> [i \in 1..dim |-> 1]],
     linear_out |-> [o \in 1..dim |-> [i \in 1..(2 * dim) |-> 1]]]

QueryVals == {1}

\* queries, one-step (batch, dim) and full-sequence (batch, 1, dim)
Queries ==
    UNION {{Tensor(<<Batch, Dim>>, [i \in 1..(Batch * Dim) |-> FInt(v)]),
            Tensor(<<Batch, 1, Dim>>, [i \in 1..(Batch * Dim) |-> FInt(v)])}
              : v \in QueryVals}

\* memory banks (batch, source_len, dim): one constant along the source
\* axis, one whose vectors differ from position to position
MemoryBanks ==
    {Build(<<Batch, SrcLen, Dim>>,
           LAMBDA idx : FInt(b * idx[2] + idx[1] - 1)) : b \in {0, 1}}

\* memory_lengths: absent, or one length in 1..source_len per batch element
Lengths == {None} \cup {Some(l) : l \in [1..Batch -> 1..SrcLen]}

PointRow(S, j) == [s \in 1..S |-> FInt(IF s = j THEN 1 ELSE 0)]

\* rows of probabilities with more than one outcome
MixedRows(S) ==
    {r \in [1..S -> {Fr(1, 2), FInt(0)}] : FOne(FSum(r))}

SpreadRows(S) ==
    {r \in [1..S -> {Fr(1, 2), Fr(1, 4), FInt(0)}] : FOne(FSum(r))}

\* alpha of a categorical distribution, (batch, 1, source_len): the last
\* batch element has the row given, the others put all mass on the
\* first position
AlphaOf(row) ==
    Build(<<Batch, 1, SrcLen>>,
          LAMBDA idx : IF idx[1] = Batch THEN row[idx[3]]
                       ELSE PointRow(SrcLen, 1)[idx[3]])

CategoricalAlphas(rows) ==
    {AlphaOf(row) : row \in rows \cup {PointRow(SrcLen, 1)}}

DirichletAlpha == Build(<<Batch, 1, SrcLen>>, LAMBDA idx : FInt(1))

\* a log_alpha that is not the logarithm of alpha: every entry is different
TaggedLogAlpha ==
    Build(<<Batch, 1, SrcLen>>, LAMBDA idx : FInt(-((idx[1] - 1) * SrcLen + idx[3])))

\* q_scores handed to forward, with the time axis; one-step callers hand
\* the same tensors without it
QScores3 ==
    {None}
    \cup {Some(Params(Some(a), Some(log(a)), "categorical", None, None))
             : a \in CategoricalAlphas(MixedRows(SrcLen))}
    \cup {Some(Params(Some(DirichletAlpha), None, "dirichlet", None, None)),
          Some(Params(Some(DirichletAlpha), Some(log(DirichletAlpha)),
                      "dirichlet", None, None))}

OneStepQ(q) ==
    IF IsNone(q) THEN q
    ELSE Some([Val(q) EXCEPT
                 !.alpha = OptSqueeze(@, 1), !.log_alpha = OptSqueeze(@, 1)])

\* params handed to sample_attn directly
SampleParams ==
    {Params(Some(a), Some(la), "categorical", None, None)
        : a \in CategoricalAlphas(SpreadRows(SrcLen)),
          la \in {TaggedLogAlpha}}
    \cup {Params(Some(a), Some(log(a)), "categorical", None, None)
             : a \in CategoricalAlphas(SpreadRows(SrcLen))}
    \cup {Params(Some(DirichletAlpha), None, "dirichlet", None, None),
          Params(None, None, "none", None, None),
          Params(Some(DirichletAlpha), None, "log_normal", None, None)}

(***************************************************************************)
(* The state machine.                                                      *)
(***************************************************************************)
NoCall == [op |-> "none"]
NoRet == [status |-> "none"]

\* every configuration __init__ accepts
Init ==
    /\ self \in {Construct(Dim, p, u, NSamples, m)
                    : p \in PDistTypes, u \in BOOLEAN, m \in Modes}
    /\ pc = "idle"
    /\ call = NoCall
    /\ ret = NoRet

\* the configuration of the constructor's defaults (lines 68-74)
InitDefault ==
    /\ self = Construct(Dim, "dirichlet", FALSE, NSamples, "sample")
    /\ pc = "idle"
    /\ call = NoCall
    /\ ret = NoRet

\* forward reaches the sampler only on lines 323-326
ForwardDraws(slf, q) ==
    IF /\ slf.mode = "sample"
       /\ ~slf.use_prior
       /\ ~IsNone(q)
       /\ ~IsNone(Val(q).log_alpha)
       /\ Val(q).dist_type = "categorical"
    THEN SampleSpace(Val(q), slf.n_samples)
    ELSE {None}

Forward ==
    /\ pc = "idle"
    /\ \E input \in Queries, memory_bank \in MemoryBanks,
          memory_lengths \in Lengths, q3 \in QScores3 :
          \E q \in {IF TDim(input) = 2 THEN OneStepQ(q3) ELSE q3},
             draw \in ForwardDraws(self, q3) :
                 /\ call' = [op |-> "forward", input |-> input,
                             memory_bank |-> memory_bank,
                             memory_lengths |-> memory_lengths,
                             q_scores |-> q]
                 /\ ret' = forward(self, input, memory_bank, memory_lengths,
                                   q, draw)
    /\ pc' = "done"
    /\ UNCHANGED self

SampleAttn ==
    /\ pc = "idle"
    /\ \E params \in SampleParams, lengths \in Lengths :
          \E mask \in {length_mask(lengths, SrcLen)},
             draw \in SampleSpace(params, NSamples) :
                 /\ call' = [op |-> "sample_attn", params |-> params,
                             n_samples |-> NSamples, lengths |-> lengths,
                             mask |-> mask]
                 /\ ret' = sample_attn(params, NSamples, lengths, mask, draw)
    /\ pc' = "done"
    /\ UNCHANGED self

\* the caller takes the result (or the exception); the object keeps nothing
Return ==
    /\ pc = "done"
    /\ pc' = "idle"
    /\ call' = NoCall
    /\ ret' = NoRet
    /\ UNCHANGED self

Next == Forward \/ Return

Spec == Init /\ [][Next]_vars

NextSample == SampleAttn \/ Return

SpecSample == InitDefault /\ [][NextSample]_vars

(***************************************************************************)
(* Properties.                                                             *)
(***************************************************************************)
ForwardDone == pc = "done" /\ call.op = "forward"
ForwardReturned == ForwardDone /\ ret.status = "returned"
SampleDone == pc = "done" /\ call.op = "sample_attn"
OneStepCall == TDim(call.input) = 2

\* the stochastic path of this call can run to the end on a categorical
\* prior: enumeration, or sampling from a supplied categorical posterior
CategoricalPosteriorCall ==
    /\ self.mode = "sample"
    /\ ~self.use_prior
    /\ ~IsNone(call.q_scores)
    /\ Val(call.q_scores).dist_type = "categorical"

\* row r of a (.., S) tensor is a one-hot vector with its 1 at position i
OneHotAt(x, r, i) ==
    \A s \in 1..Len(RowOf(x, r)) :
        IF s = i THEN FOne(RowOf(x, r)[s]) ELSE FZero(RowOf(x, r)[s])

\* C1: whenever forward returns from a call that was given memory_lengths,
\* every row of the returned c_align_vectors sums to 1 along the source axis
\* and is exactly 0 at every source position at or beyond the valid length
\* of its batch element.
C1_AlignSumsToOneAndMasked ==
    (ForwardReturned /\ ~IsNone(call.memory_lengths)) =>
        LET c == ret.c_align_vectors
            len == Val(call.memory_lengths)
        IN  /\ c.size = <<Batch, SrcLen>>
            /\ \A n \in 1..Batch :
                  /\ FOne(FSum(RowOf(c, n)))
                  /\ \A s \in 1..SrcLen :
                        s > len[n] => (At(c, <<n, s>>).n = 0 /\ At(c, <<n, s>>).d > 0)

\* a returned call in which some batch element has padding and the weights
\* of its valid positions are all positive
C1_Witness ==
    /\ ForwardReturned
    /\ ~IsNone(call.memory_lengths)
    /\ \E n \in 1..Batch :
          /\ Val(call.memory_lengths)[n] < SrcLen
          /\ FZero(At(ret.c_align_vectors, <<n, SrcLen>>))
          /\ FPos(At(ret.c_align_vectors, <<n, 1>>))

\* C2: every categorical sample returned by sample_attn is a one-hot vector
\* whose 1 lies at a valid source position (below the memory length of its
\* batch element), for any alpha.
C2_CategoricalSamplesOnValidPositions ==
    (/\ SampleDone
     /\ call.params.dist_type = "categorical"
     /\ ret.status = "returned"
     /\ ~IsNone(call.lengths)) =>
        LET a == Val(ret.attns)
        IN  \A k \in 1..a.size[1], n \in 1..a.size[2], t \in 1..a.size[3] :
               \E i \in 1..Val(call.lengths)[n] :
                  OneHotAt(a, Ravel(<<k, n, t>>, SubSeq(a.size, 1, 3)) + 1, i)

\* C3: for categorical sampling, sample_log_probs[k, n, t] is log_alpha[n, t, i]
\* at the index i where sample [k, n, t, :] is 1, for every sample k.
C3_LogProbsGatheredAtSample ==
    (/\ SampleDone
     /\ call.params.dist_type = "categorical"
     /\ ret.status = "returned") =>
        LET a == Val(ret.attns)
            slp == Val(ret.sample_log_probs)
            la == Val(call.params.log_alpha)
        IN  /\ slp.size = SubSeq(a.size, 1, 3)
            /\ \A k \in 1..a.size[1], n \in 1..a.size[2], t \in 1..a.size[3] :
                  \E i \in 1..a.size[4] :
                     /\ OneHotAt(a, Ravel(<<k, n, t>>, slp.size) + 1, i)
                     /\ At(slp, <<k, n, t>>) = At(la, <<n, t, i>>)

\* two samples of one batch element that picked different positions, under a
\* log_alpha whose entries are all different
C3_Witness ==
    /\ SampleDone
    /\ call.params.dist_type = "categorical"
    /\ ret.status = "returned"
    /\ call.params.log_alpha = Some(TaggedLogAlpha)
    /\ \E n \in 1..Batch :
          At(Val(ret.sample_log_probs), <<1, n, 1>>)
             # At(Val(ret.sample_log_probs), <<2, n, 1>>)

\* C4: a full-sequence call with target_len = 1 completes whenever the
\* one-step call on the same batch, memory and configuration does, and its
\* h_c, c_align_vectors and h_y have the one-step shapes once the time axis
\* is removed.
C4_FullSequenceMatchesOneStep ==
    (ForwardDone /\ ~OneStepCall /\ call.input.size[2] = 1) =>
        \A draw \in ForwardDraws(self, call.q_scores) :
           LET one == forward(self, squeeze(call.input, 1), call.memory_bank,
                              call.memory_lengths, OneStepQ(call.q_scores), draw)
           IN  one.status = "returned" =>
                  /\ ret.status = "returned"
                  /\ squeeze(ret.h_c, 0).size = one.h_c.size
                  /\ squeeze(ret.c_align_vectors, 0).size = one.c_align_vectors.size
                  /\ squeeze(ret.h_y, 0).size = one.h_y.size

\* what the enumerate mode is to produce: no samples, source_len
\* pseudo-samples, pseudo-sample s of batch element n being memory_bank[n, s]
EnumerateOutcome ==
    /\ ret.status = "returned"
    /\ IsNone(ret.y_align_vectors)
    /\ "sample" \notin {ret.stages[i] : i \in 1..Len(ret.stages)}
    /\ ret.context_y.size = <<SrcLen, Batch, 1, Dim>>
    /\ \A s \in 1..SrcLen, n \in 1..Batch, d \in 1..Dim :
          At(ret.context_y, <<s, n, 1, d>>) = At(call.memory_bank, <<n, s, d>>)
    /\ ret.h_y.size[1] = SrcLen

C6_OneStepCategoricalShapes ==
    (/\ ForwardDone
     /\ OneStepCall
     /\ self.p_dist_type = "categorical"
     /\ CategoricalPosteriorCall
     /\ Val(call.q_scores).log_alpha = Some(log(Val(Val(call.q_scores).alpha)))) =>
        /\ ret.status = "returned"
        /\ ret.h_c.size = <<Batch, Dim>>
        /\ ret.c_align_vectors.size = <<Batch, SrcLen>>
        /\ ret.h_y.size = <<NSamples, Batch, Dim>>
        /\ LET slp == Val(Val(ret.dist_info.q).sample_log_probs)
           IN  /\ slp.size = <<NSamples, Batch>>
               /\ \A i \in 1..Len(slp.data) :
                     slp.data[i].d > 0 /\ slp.data[i].n <= 0

\* such a call with a padded position in the last batch element and a sample
\* of log-probability below 0
C6_Witness ==
    /\ ForwardReturned
    /\ OneStepCall
    /\ CategoricalPosteriorCall
    /\ call.memory_lengths = Some([n \in 1..Batch |-> IF n = Batch THEN SrcLen - 1 ELSE SrcLen])
    /\ FZero(At(ret.c_align_vectors, <<Batch, SrcLen>>))
    /\ \E i \in 1..(NSamples * Batch) :
          Val(Val(ret.dist_info.q).sample_log_probs).data[i].n < 0

\* C7: on a dirichlet prior with memory_lengths given, forward produces prior
\* parameters whose alpha is a small strictly positive constant at every
\* masked source position, and c_align_vectors is the softmax of the masked
\* scores.
C7_DirichletPriorMaskedAlphaPositive ==
    (/\ ForwardDone
     /\ self.p_dist_type = "dirichlet"
     /\ ~IsNone(call.memory_lengths)
     /\ OneStepCall
     /\ (self.mode = "enum" \/ CategoricalPosteriorCall)) =>
        /\ ret.status = "returned"
        /\ LET alpha == Val(Val(ret.dist_info.p).alpha)
               len == Val(call.memory_lengths)
           IN  \A n \in 1..Batch, s \in 1..SrcLen :
                  /\ FPos(At(alpha, <<n, s>>))
                  /\ s > len[n] => /\ At(alpha, <<n, s>>) = ExpMinus10
                                   /\ FZero(At(ret.c_align_vectors, <<n, s>>))

\* C8: on a log_normal prior forward never returns: it ends with the error of
\* the distribution-type check before any score, mask, softmax, context or
\* sampling computation (the only earlier failure is the promotion of a
\* one-step q_scores that has alpha but no log_alpha, line 249).
C8_LogNormalFailsBeforeComputation ==
    (ForwardDone /\ self.p_dist_type = "log_normal") =>
        /\ ret.status # "returned"
        /\ ret.stages = <<>>
        /\ DOMAIN ret = {"status", "line", "stages"}
        /\ \/ ret.status \in {"AssertionError", "Exception"} /\ ret.line \in 263..285
           \/ /\ ret.status = "AttributeError" /\ ret.line = 249
              /\ OneStepCall
              /\ IsNone(Val(call.q_scores).log_alpha)

\* a log_normal call stopped by the distribution-type check
C8_Witness ==
    /\ ForwardDone
    /\ self.p_dist_type = "log_normal"
    /\ ~IsNone(call.memory_lengths)
    /\ ret.status = "AssertionError"
    /\ ret.line = 263

\* C9: sample_attn with dist_type "none" returns normally, drawing nothing.
C9_NoneDistTypeIsNoOp ==
    (SampleDone /\ call.params.dist_type = "none") =>
        /\ ret.status = "returned"
        /\ IsNone(ret.attns)

\* C10: in sample mode, with a supplied dirichlet posterior, forward
\* completes the stochastic path and every drawn sample is 0 at the masked
\* source positions.
C10_DirichletPosteriorSampled ==
    (/\ ForwardDone
     /\ OneStepCall
     /\ self.p_dist_type = "categorical"
     /\ self.mode = "sample"
     /\ ~self.use_prior
     /\ ~IsNone(call.q_scores)
     /\ Val(call.q_scores).dist_type = "dirichlet"
     /\ ~IsNone(Val(call.q_scores).log_alpha)
     /\ ~IsNone(call.memory_lengths)) =>
        /\ ret.status = "returned"
        /\ LET smp == Val(Val(ret.dist_info.q).samples)
               len == Val(call.memory_lengths)
           IN  /\ smp.size = <<NSamples, Batch, SrcLen>>
               /\ \A k \in 1..NSamples, n \in 1..Batch, s \in 1..SrcLen :
                     s > len[n] => FZero(At(smp, <<k, n, s>>))

====
